---- MODULE Spec2Model ----
(***************************************************************************)
(* Sequence alignment engine of d0bromir/algorithms (python/):             *)
(*   needleman_wunsch.py, hirschberg.py, smith_waterman.py,                *)
(*   smith_waterman_affine.py.                                             *)
(* A Python string is a sequence of one-character strings; a returned      *)
(* tuple (aligned_seq1, aligned_seq2, score) is a record.  Every call is   *)
(* pure, so a call is one action that stores the tuple the function        *)
(* returns for the inputs chosen in the initial state.                     *)
(***************************************************************************)
EXTENDS Integers, Sequences, FiniteSets, TLC

VARIABLES seq1, seq2, match_score, mismatch_penalty, gap_penalty,
          gap_open, gap_extend, nw, hb, sw, swa, nws, stack, tb

vars == <<seq1, seq2, match_score, mismatch_penalty, gap_penalty,
          gap_open, gap_extend, nw, hb, sw, swa, nws, stack, tb>>

inputs == <<seq1, seq2, match_score, mismatch_penalty, gap_penalty,
            gap_open, gap_extend>>

(***************************************************************************)
(* Bounds of the model and the input sets.                                 *)
(***************************************************************************)
MaxLen == 4
MaxLocalLen == 3
MaxAnyLen == 1
MaxOptLen == 3
MaxGapLen == 3
MaxStackLen == 4
MaxTraceLen == 4
MaxAffLen == 4

Gap == "-"
Symbols == {"A", "C"}
SymbolsWithGap == Symbols \cup {Gap}

MatchScores == {1, 2}
MismatchPenalties == {-1, 1}
GapPenalties == {-2, -1, 1}
LocalMismatchPenalties == {-1, 0, 1}
LocalGapPenalties == {-1, 0, 1}
AffineGaps == {<<-3, -1>>, <<0, -1>>, <<0, 1>>}
AnyGapPenalties == {-1, 1}
AnyAffineGaps == {<<-3, -1>>, <<0, 1>>}

RECURSIVE SeqsUpTo(_, _)
SeqsUpTo(S, n) ==
    IF n = 0 THEN {<<>>}
    ELSE LET shorter == SeqsUpTo(S, n - 1)
         IN  shorter \cup {Append(s, c) : s \in {t \in shorter : Len(t) = n - 1}, c \in S}

(***************************************************************************)
(* Python built-ins used by the four aligners.                             *)
(***************************************************************************)
NEG_INF == -1000000

\* float('-inf') + x is float('-inf')
Add(a, b) == IF a = NEG_INF THEN NEG_INF ELSE a + b

Max2(a, b) == IF a >= b THEN a ELSE b
Max3(a, b, c) == Max2(Max2(a, b), c)
Max4(a, b, c, d) == Max2(Max3(a, b, c), d)

\* score_right.reverse() left out
Reverse2NotReversed(f, n) == [j \in 0..n |-> f[j]]

\* list.reverse() of a list indexed from 0 to n
Reverse2(f, n) == [j \in 0..n |-> f[n - j]]

\* s[::-1]
Reverse(s) == [k \in 1..Len(s) |-> s[Len(s) + 1 - k]]

\* '-' * n
Gaps(n) == [k \in 1..n |-> Gap]

\* s[k + 1:] where s[k:] is meant
SuffixOffByOne(s, k) == SubSeq(s, k + 2, Len(s))

\* s[:k] and s[k:]
Prefix(s, k) == SubSeq(s, 1, k)
Suffix(s, k) == SubSeq(s, k + 1, Len(s))

\* [[v] * (n + 1) for _ in range(m + 1)]
Matrix(m, n, v) == [i \in 0..m |-> [j \in 0..n |-> v]]

Result(a1, a2, s) == [aligned_seq1 |-> a1, aligned_seq2 |-> a2, score |-> s, returned |-> TRUE]
NotCalled == [aligned_seq1 |-> <<>>, aligned_seq2 |-> <<>>, score |-> 0, returned |-> FALSE]

\* the list nw_score returns, before and after the call
NoRow == [value |-> <<>>, returned |-> FALSE]

\* a traceback that has not begun: no matrix st, no walker w, no pass of the loop
NoWalk == [alg |-> "none", pc |-> "none", st |-> <<>>, w |-> <<>>, steps |-> 0]

(***************************************************************************)
(* needleman_wunsch.py                                                     *)
(***************************************************************************)
\* the test inverted: != where == is meant
PairScoreInverted(a, b, ms, mp) == IF a # b THEN ms ELSE mp

\* match_score if seq1[i - 1] == seq2[j - 1] else mismatch_penalty
PairScore(a, b, ms, mp) == IF a = b THEN ms ELSE mp

\* the first row and column left at 0, as smith_waterman leaves them
NWInitZero(m, n, gp) == [i \in 0..m |-> [j \in 0..n |-> 0]]

\* lines 29-35: the matrix with its first row and column set
NWInit(m, n, gp) ==
    [i \in 0..m |-> [j \in 0..n |-> IF j = 0 THEN i * gp ELSE IF i = 0 THEN j * gp ELSE 0]]

\* the insert term left out of the maximum
NWCellNoInsert(dp, i, j, s1, s2, ms, mp, gp) ==
    LET match  == dp[i - 1][j - 1] + (IF s1[i] = s2[j] THEN ms ELSE mp)
        delete == dp[i - 1][j] + gp
    IN  Max2(match, delete)

\* lines 40-48: the value stored in dp[i][j]
NWCell(dp, i, j, s1, s2, ms, mp, gp) ==
    LET match  == dp[i - 1][j - 1] + PairScore(s1[i], s2[j], ms, mp)
        delete == dp[i - 1][j] + gp
        insert == dp[i][j - 1] + gp
    IN  Max3(match, delete, insert)

\* lines 38-48: the fill loops, row by row
RECURSIVE NWFill(_, _, _, _, _, _, _, _)
NWFill(dp, i, j, s1, s2, ms, mp, gp) ==
    IF i > Len(s1) THEN dp
    ELSE IF j > Len(s2) THEN NWFill(dp, i + 1, 1, s1, s2, ms, mp, gp)
    ELSE NWFill([dp EXCEPT ![i][j] = NWCell(dp, i, j, s1, s2, ms, mp, gp)],
                i, j + 1, s1, s2, ms, mp, gp)

\* lines 39-48: the loop over j for one i, a row of dp
RECURSIVE NWFillRow(_, _, _, _, _, _, _, _)
NWFillRow(dp, i, j, s1, s2, ms, mp, gp) ==
    IF j > Len(s2) THEN dp
    ELSE NWFillRow([dp EXCEPT ![i][j] = NWCell(dp, i, j, s1, s2, ms, mp, gp)],
                   i, j + 1, s1, s2, ms, mp, gp)

NWMatrix(s1, s2, ms, mp, gp) ==
    NWFill(NWInit(Len(s1), Len(s2), gp), 1, 1, s1, s2, ms, mp, gp)

\* the up test made before the diagonal test
NWMoveUpFirst(dp, i, j, s1, s2, ms, mp, gp) ==
    IF i > 0 /\ j > 0
    THEN LET current_score  == dp[i][j]
             diagonal_score == dp[i - 1][j - 1] + PairScore(s1[i], s2[j], ms, mp)
         IN  IF current_score = dp[i - 1][j] + gp THEN "up"
             ELSE IF current_score = diagonal_score THEN "diag"
             ELSE "left"
    ELSE IF i > 0 THEN "up"
    ELSE "left"

\* lines 56-80: the move taken at (i, j): "diag", "up" or "left"
NWMove(dp, i, j, s1, s2, ms, mp, gp) ==
    IF i > 0 /\ j > 0
    THEN LET current_score  == dp[i][j]
             diagonal_score == dp[i - 1][j - 1] + PairScore(s1[i], s2[j], ms, mp)
         IN  IF current_score = diagonal_score THEN "diag"
             ELSE IF i > 0 /\ current_score = dp[i - 1][j] + gp THEN "up"
             ELSE "left"
    ELSE IF i > 0 THEN "up"
    ELSE "left"

\* lines 55-80: the traceback loop; a1, a2 are built back to front
RECURSIVE NWTrace(_, _, _, _, _, _, _, _, _, _)
NWTrace(dp, i, j, a1, a2, s1, s2, ms, mp, gp) ==
    IF ~(i > 0 \/ j > 0) THEN <<a1, a2>>
    ELSE LET mv == NWMove(dp, i, j, s1, s2, ms, mp, gp)
         IN  IF mv = "diag"
             THEN NWTrace(dp, i - 1, j - 1, Append(a1, s1[i]), Append(a2, s2[j]),
                          s1, s2, ms, mp, gp)
             ELSE IF mv = "up"
             THEN NWTrace(dp, i - 1, j, Append(a1, s1[i]), Append(a2, Gap),
                          s1, s2, ms, mp, gp)
             ELSE NWTrace(dp, i, j - 1, Append(a1, Gap), Append(a2, s2[j]),
                          s1, s2, ms, mp, gp)

\* lines 56-80: one pass of the traceback loop from walker w = [i, j, a1, a2];
\* a1, a2 are aligned_seq1, aligned_seq2, built back to front
NWStep(dp, w, s1, s2, ms, mp, gp) ==
    LET mv == NWMove(dp, w.i, w.j, s1, s2, ms, mp, gp)
    IN  IF mv = "diag"
        THEN [i |-> w.i - 1, j |-> w.j - 1,
              a1 |-> Append(w.a1, s1[w.i]), a2 |-> Append(w.a2, s2[w.j])]
        ELSE IF mv = "up"
        THEN [i |-> w.i - 1, j |-> w.j,
              a1 |-> Append(w.a1, s1[w.i]), a2 |-> Append(w.a2, Gap)]
        ELSE [i |-> w.i, j |-> w.j - 1,
              a1 |-> Append(w.a1, Gap), a2 |-> Append(w.a2, s2[w.j])]

needleman_wunsch(s1, s2, ms, mp, gp) ==
    LET m  == Len(s1)
        n  == Len(s2)
        dp == NWMatrix(s1, s2, ms, mp, gp)
        tr == NWTrace(dp, m, n, <<>>, <<>>, s1, s2, ms, mp, gp)
    IN  Result(Reverse(tr[1]), Reverse(tr[2]), dp[m][n])

(***************************************************************************)
(* hirschberg.py                                                           *)
(***************************************************************************)
\* lines 52-61: curr_row[j..n] of row i, written left to right over the old row
RECURSIVE NwScoreRow(_, _, _, _, _, _, _, _, _)
NwScoreRow(curr_row, prev_row, i, j, s1, s2, ms, mp, gp) ==
    IF j > Len(s2) THEN curr_row
    ELSE LET match  == prev_row[j - 1] + PairScore(s1[i], s2[j], ms, mp)
             delete == prev_row[j] + gp
             insert == curr_row[j - 1] + gp
         IN  NwScoreRow([curr_row EXCEPT ![j] = Max3(match, delete, insert)],
                        prev_row, i, j + 1, s1, s2, ms, mp, gp)

\* lines 49-66: the loop over i with the swap of the two rows
RECURSIVE NwScoreLoop(_, _, _, _, _, _, _, _)
NwScoreLoop(prev_row, curr_row, i, s1, s2, ms, mp, gp) ==
    IF i > Len(s1) THEN prev_row
    ELSE LET filled == NwScoreRow([curr_row EXCEPT ![0] = i * gp], prev_row, i, 1,
                                  s1, s2, ms, mp, gp)
         IN  NwScoreLoop(filled, prev_row, i + 1, s1, s2, ms, mp, gp)

\* prev_row started as [0] * (n + 1), like curr_row
NwScoreFromZeroRow(s1, s2, ms, mp, gp) ==
    LET n == Len(s2)
    IN  NwScoreLoop([j \in 0..n |-> 0], [j \in 0..n |-> 0], 1, s1, s2, ms, mp, gp)

\* lines 43-66
nw_score(s1, s2, ms, mp, gp) ==
    LET n == Len(s2)
    IN  NwScoreLoop([j \in 0..n |-> j * gp], [j \in 0..n |-> 0], 1, s1, s2, ms, mp, gp)

\* the scans of lines 109-123, 142-155 and 184-188: the first index of 0..n at
\* which f is largest, found with a strict > from best = float('-inf'), index 0
RECURSIVE ScanBest(_, _, _, _, _)
ScanBest(f, j, n, best_score, best_j) ==
    IF j > n THEN [score |-> best_score, at |-> best_j]
    ELSE IF f[j] > best_score THEN ScanBest(f, j + 1, n, f[j], j)
    ELSE ScanBest(f, j + 1, n, best_score, best_j)

FirstBest(f, n) == ScanBest(f, 0, n, NEG_INF, 0)

\* the gaps after the placed symbol not counted
PlaceScoreNoGapsAfter(c, s, j, ms, mp, gp) ==
    IF j < Len(s)
    THEN j * gp + (IF c = s[j + 1] THEN ms ELSE mp)
    ELSE j * gp + gp

\* lines 111-119: the score of placing the single symbol c at position j of s
\* (j = Len(s): against a gap after all of s)
PlaceScore(c, s, j, ms, mp, gp) ==
    LET n == Len(s)
    IN  IF j < n
        THEN j * gp + PairScore(c, s[j + 1], ms, mp) + (n - j - 1) * gp
        ELSE j * gp + gp

\* one gap too many after the placed symbol
HBaseM1LongPad(s1, s2, ms, mp, gp) ==
    LET n    == Len(s2)
        best == FirstBest([j \in 0..n |-> PlaceScore(s1[1], s2, j, ms, mp, gp)], n)
    IN  IF best.at = n
        THEN Result(Gaps(n) \o <<s1[1]>>, s2 \o <<Gap>>, best.score)
        ELSE Result(Gaps(best.at) \o <<s1[1]>> \o Gaps(n - best.at), s2, best.score)

\* lines 103-135: m = 1
HBaseM1(s1, s2, ms, mp, gp) ==
    LET n    == Len(s2)
        best == FirstBest([j \in 0..n |-> PlaceScore(s1[1], s2, j, ms, mp, gp)], n)
    IN  IF best.at = n
        THEN Result(Gaps(n) \o <<s1[1]>>, s2 \o <<Gap>>, best.score)
        ELSE Result(Gaps(best.at) \o <<s1[1]>> \o Gaps(n - best.at - 1), s2, best.score)

\* lines 137-164: n = 1
HBaseN1(s1, s2, ms, mp, gp) ==
    LET m    == Len(s1)
        best == FirstBest([i \in 0..m |-> PlaceScore(s2[1], s1, i, ms, mp, gp)], m)
    IN  IF best.at = m
        THEN Result(s1 \o <<Gap>>, Gaps(m) \o <<s2[1]>>, best.score)
        ELSE Result(s1, Gaps(best.at) \o <<s2[1]>> \o Gaps(m - best.at - 1), best.score)

\* mid = 1 where m // 2 is meant: one symbol split off at each level
MidOne(m) == 1

\* line 168
Mid(m) == m \div 2

\* line 171
ScoreLeft(s1, s2, ms, mp, gp) == nw_score(Prefix(s1, Mid(Len(s1))), s2, ms, mp, gp)

\* score_right.reverse() left out
ScoreRightNotReversed(s1, s2, ms, mp, gp) ==
    nw_score(Reverse(Suffix(s1, Len(s1) \div 2)), Reverse(s2), ms, mp, gp)

\* lines 175-178: the row of the reversed right half, reversed back
ScoreRight(s1, s2, ms, mp, gp) ==
    LET n   == Len(s2)
        row == nw_score(Reverse(Suffix(s1, Mid(Len(s1)))), Reverse(s2), ms, mp, gp)
    IN  [j \in 0..n |-> row[n - j]]

\* the split chosen by score_left alone
SplitByLeftOnly(score_left, score_right, n) ==
    FirstBest([j \in 0..n |-> score_left[j]], n).at

\* lines 181-188
Split(score_left, score_right, n) ==
    FirstBest([j \in 0..n |-> score_left[j] + score_right[j]], n).at

RECURSIVE hirschberg(_, _, _, _, _)
hirschberg(s1, s2, ms, mp, gp) ==
    LET m == Len(s1)
        n == Len(s2)
    IN  IF m = 0 THEN Result(Gaps(n), s2, n * gp)
        ELSE IF n = 0 THEN Result(s1, Gaps(m), m * gp)
        ELSE IF m = 1 THEN HBaseM1(s1, s2, ms, mp, gp)
        ELSE IF n = 1 THEN HBaseN1(s1, s2, ms, mp, gp)
        ELSE LET mid   == Mid(m)
                 split == Split(ScoreLeft(s1, s2, ms, mp, gp),
                                ScoreRight(s1, s2, ms, mp, gp), n)
                 left  == hirschberg(Prefix(s1, mid), Prefix(s2, split), ms, mp, gp)
                 right == hirschberg(Suffix(s1, mid), Suffix(s2, split), ms, mp, gp)
             IN  Result(left.aligned_seq1 \o right.aligned_seq1,
                        left.aligned_seq2 \o right.aligned_seq2,
                        left.score + right.score)

\* lines 95-164: the four base cases, tested in the order m = 0, n = 0, m = 1, n = 1
IsBase(s1, s2) == Len(s1) = 0 \/ Len(s2) = 0 \/ Len(s1) = 1 \/ Len(s2) = 1

HBase(s1, s2, ms, mp, gp) ==
    LET m == Len(s1)
        n == Len(s2)
    IN  IF m = 0 THEN Result(Gaps(n), s2, n * gp)
        ELSE IF n = 0 THEN Result(s1, Gaps(m), m * gp)
        ELSE IF m = 1 THEN HBaseM1(s1, s2, ms, mp, gp)
        ELSE HBaseN1(s1, s2, ms, mp, gp)

(***************************************************************************)
(* hirschberg.py, call by call: stack holds the frames of the calls of     *)
(* hirschberg that have not returned, the innermost last.  A frame holds   *)
(* the arguments, the locals of the divide step and the place reached:     *)
(*   "entry"      the call has been made                                   *)
(*   "nw_left"    nw_score of line 171 is running: prev_row and curr_row   *)
(*                are its two rows and i is its loop counter               *)
(*   "nw_right"   score_left is set, nw_score of line 175 is running       *)
(*   "scan"       score_right is set and reversed (line 178)               *)
(*   "call_left"  split is set (lines 181-188)                             *)
(*   "wait_left"  the call of line 191 is running                          *)
(*   "call_right" left is set                                              *)
(*   "wait_right" the call of line 196 is running                          *)
(*   "combine"    right is set                                             *)
(***************************************************************************)
Frame(s1, s2) ==
    [seq1 |-> s1, seq2 |-> s2, pc |-> "entry", prev_row |-> <<>>, curr_row |-> <<>>, i |-> 0,
     score_left |-> <<>>, score_right |-> <<>>, split |-> 0,
     left |-> NotCalled, right |-> NotCalled]

\* the arguments of the call of nw_score that is running in frame f
NwSeq1(f) ==
    IF f.pc = "nw_left" THEN Prefix(f.seq1, Mid(Len(f.seq1)))
    ELSE Reverse(Suffix(f.seq1, Mid(Len(f.seq1))))

NwSeq2(f) == IF f.pc = "nw_left" THEN f.seq2 ELSE Reverse(f.seq2)

\* lines 46-47: the two rows nw_score starts with
NwStart(f, pc, gp) ==
    [f EXCEPT !.pc = pc,
              !.prev_row = [j \in 0..Len(f.seq2) |-> j * gp],
              !.curr_row = [j \in 0..Len(f.seq2) |-> 0],
              !.i = 1]

Top == stack[Len(stack)]

SetTop(f) == [stack EXCEPT ![Len(stack)] = f]

\* the stack after the innermost call returned r to its caller
Returned(r) ==
    LET below  == SubSeq(stack, 1, Len(stack) - 1)
        caller == below[Len(below)]
    IN  IF below = <<>> THEN below
        ELSE [below EXCEPT ![Len(below)] =
                 IF caller.pc = "wait_left"
                 THEN [caller EXCEPT !.left = r, !.pc = "call_right"]
                 ELSE [caller EXCEPT !.right = r, !.pc = "combine"]]

\* the caller's hb is assigned when the outermost call returns
Return(r) ==
    /\ stack' = Returned(r)
    /\ hb' = IF Len(stack) = 1 THEN r ELSE hb

\* the number of entries of a list of scores
Size(l) == Cardinality(DOMAIN l)

\* the score cells frame f keeps alive: prev_row and curr_row while nw_score
\* runs (lines 46-47), score_left from line 171 and score_right from line 175
\* until the call returns
CellsOfFrame(f) == Size(f.prev_row) + Size(f.curr_row) + Size(f.score_left) + Size(f.score_right)

RECURSIVE CellsOf(_, _)
CellsOf(stk, k) ==
    IF k = 0 THEN 0
    ELSE CellsOf(stk, k - 1) + CellsOfFrame(stk[k])

\* the score cells held by all the calls that have not returned
LiveCells == CellsOf(stack, Len(stack))

(***************************************************************************)
(* smith_waterman.py                                                       *)
(***************************************************************************)
\* the test inverted: != where == is meant
SWCellInverted(dp, i, j, s1, s2, ms, mp, gp) ==
    LET match  == dp[i - 1][j - 1] + (IF s1[i] # s2[j] THEN ms ELSE mp)
        delete == dp[i - 1][j] + gp
        insert == dp[i][j - 1] + gp
    IN  Max4(0, match, delete, insert)

\* lines 36-45: the value stored in dp[i][j]
SWCell(dp, i, j, s1, s2, ms, mp, gp) ==
    LET match  == dp[i - 1][j - 1] + PairScore(s1[i], s2[j], ms, mp)
        delete == dp[i - 1][j] + gp
        insert == dp[i][j - 1] + gp
    IN  Max4(0, match, delete, insert)

\* lines 34-50: the fill loops with the running maximum; st = [dp, max_score, max_pos]
RECURSIVE SWFill(_, _, _, _, _, _, _, _)
SWFill(st, i, j, s1, s2, ms, mp, gp) ==
    IF i > Len(s1) THEN st
    ELSE IF j > Len(s2) THEN SWFill(st, i + 1, 1, s1, s2, ms, mp, gp)
    ELSE LET v   == SWCell(st.dp, i, j, s1, s2, ms, mp, gp)
             dp2 == [st.dp EXCEPT ![i][j] = v]
         IN  SWFill(IF v > st.max_score
                    THEN [dp |-> dp2, max_score |-> v, max_pos |-> <<i, j>>]
                    ELSE [st EXCEPT !.dp = dp2],
                    i, j + 1, s1, s2, ms, mp, gp)

\* lines 35-50: the loop over j for one i, a row of dp with the running maximum
RECURSIVE SWFillRow(_, _, _, _, _, _, _, _)
SWFillRow(st, i, j, s1, s2, ms, mp, gp) ==
    IF j > Len(s2) THEN st
    ELSE LET v   == SWCell(st.dp, i, j, s1, s2, ms, mp, gp)
             dp2 == [st.dp EXCEPT ![i][j] = v]
         IN  SWFillRow(IF v > st.max_score
                       THEN [dp |-> dp2, max_score |-> v, max_pos |-> <<i, j>>]
                       ELSE [st EXCEPT !.dp = dp2],
                       i, j + 1, s1, s2, ms, mp, gp)

\* the running maximum started at float('-inf') instead of 0
SWFilledFromNegInf(s1, s2, ms, mp, gp) ==
    SWFill([dp |-> Matrix(Len(s1), Len(s2), 0), max_score |-> NEG_INF, max_pos |-> <<0, 0>>],
           1, 1, s1, s2, ms, mp, gp)

\* lines 29-31 and the fill
SWFilled(s1, s2, ms, mp, gp) ==
    SWFill([dp |-> Matrix(Len(s1), Len(s2), 0), max_score |-> 0, max_pos |-> <<0, 0>>],
           1, 1, s1, s2, ms, mp, gp)

\* lines 58-73: the move taken at (i, j)
SWMove(dp, i, j, s1, s2, ms, mp, gp) ==
    LET current_score  == dp[i][j]
        diagonal_score == dp[i - 1][j - 1] + PairScore(s1[i], s2[j], ms, mp)
    IN  IF current_score = diagonal_score THEN "diag"
        ELSE IF current_score = dp[i - 1][j] + gp THEN "up"
        ELSE "left"

\* the dp[i][j] > 0 test left out: the walk runs to the edge of the matrix
SWContinueToEdge(dp, i, j) == i > 0 /\ j > 0

\* line 57
SWContinue(dp, i, j) == i > 0 /\ j > 0 /\ dp[i][j] > 0

\* lines 57-73: the traceback loop
RECURSIVE SWTrace(_, _, _, _, _, _, _, _, _, _)
SWTrace(dp, i, j, a1, a2, s1, s2, ms, mp, gp) ==
    IF ~SWContinue(dp, i, j) THEN <<a1, a2>>
    ELSE LET mv == SWMove(dp, i, j, s1, s2, ms, mp, gp)
         IN  IF mv = "diag"
             THEN SWTrace(dp, i - 1, j - 1, Append(a1, s1[i]), Append(a2, s2[j]),
                          s1, s2, ms, mp, gp)
             ELSE IF mv = "up"
             THEN SWTrace(dp, i - 1, j, Append(a1, s1[i]), Append(a2, Gap),
                          s1, s2, ms, mp, gp)
             ELSE SWTrace(dp, i, j - 1, Append(a1, Gap), Append(a2, s2[j]),
                          s1, s2, ms, mp, gp)

\* lines 58-73: one pass of the traceback loop from walker w = [i, j, a1, a2]
SWStep(dp, w, s1, s2, ms, mp, gp) ==
    LET mv == SWMove(dp, w.i, w.j, s1, s2, ms, mp, gp)
    IN  IF mv = "diag"
        THEN [i |-> w.i - 1, j |-> w.j - 1,
              a1 |-> Append(w.a1, s1[w.i]), a2 |-> Append(w.a2, s2[w.j])]
        ELSE IF mv = "up"
        THEN [i |-> w.i - 1, j |-> w.j,
              a1 |-> Append(w.a1, s1[w.i]), a2 |-> Append(w.a2, Gap)]
        ELSE [i |-> w.i, j |-> w.j - 1,
              a1 |-> Append(w.a1, Gap), a2 |-> Append(w.a2, s2[w.j])]

\* the walk started at the last cell (m, n), as needleman_wunsch starts it
SWStartAtCorner(st, m, n) == [i |-> m, j |-> n, a1 |-> <<>>, a2 |-> <<>>]

\* lines 53-55: the walker before the first pass, i, j = max_pos
SWStart(st, m, n) == [i |-> st.max_pos[1], j |-> st.max_pos[2], a1 |-> <<>>, a2 |-> <<>>]

\* lines 76-77 left out: the strings returned in traceback order
SmithWatermanNotReversed(s1, s2, ms, mp, gp) ==
    LET st == SWFilled(s1, s2, ms, mp, gp)
        tr == SWTrace(st.dp, st.max_pos[1], st.max_pos[2], <<>>, <<>>, s1, s2, ms, mp, gp)
    IN  Result(tr[1], tr[2], st.max_score)

smith_waterman(s1, s2, ms, mp, gp) ==
    LET st == SWFilled(s1, s2, ms, mp, gp)
        tr == SWTrace(st.dp, st.max_pos[1], st.max_pos[2], <<>>, <<>>, s1, s2, ms, mp, gp)
    IN  Result(Reverse(tr[1]), Reverse(tr[2]), st.max_score)

(***************************************************************************)
(* smith_waterman_affine.py                                                *)
(***************************************************************************)
\* X[i][j] as Python reads it: a negative index counts from the end of the list
PyAt(X, i, j) ==
    LET m == Cardinality(DOMAIN X) - 1
        n == Cardinality(DOMAIN X[0]) - 1
    IN  X[IF i < 0 THEN m + 1 + i ELSE i][IF j < 0 THEN n + 1 + j ELSE j]

\* gap_extend left out of the two opening terms
AffIOpenOnly(st, i, j, go, ge) ==
    Max4(0,
         Add(st.M[i][j - 1], go),
         Add(st.I[i][j - 1], ge),
         Add(st.D[i][j - 1], go))

\* lines 50-55
AffI(st, i, j, go, ge) ==
    Max4(0,
         Add(Add(st.M[i][j - 1], go), ge),
         Add(st.I[i][j - 1], ge),
         Add(Add(st.D[i][j - 1], go), ge))

\* the 0 left out of the maximum: D is not floored
AffDNoFloor(st, i, j, go, ge) ==
    Max3(Add(Add(st.M[i - 1][j], go), ge),
         Add(Add(st.I[i - 1][j], go), ge),
         Add(st.D[i - 1][j], ge))

\* lines 58-63
AffD(st, i, j, go, ge) ==
    Max4(0,
         Add(Add(st.M[i - 1][j], go), ge),
         Add(Add(st.I[i - 1][j], go), ge),
         Add(st.D[i - 1][j], ge))

\* the I and D terms left out of the maximum: no pairing after a gap
AffMFromMOnly(st, i, j, s1, s2, ms, mp) ==
    Max2(0, Add(st.M[i - 1][j - 1], PairScore(s1[i], s2[j], ms, mp)))

\* lines 66-72
AffM(st, i, j, s1, s2, ms, mp) ==
    LET match_mismatch_score == PairScore(s1[i], s2[j], ms, mp)
    IN  Max4(0,
             Add(st.M[i - 1][j - 1], match_mismatch_score),
             Add(st.I[i - 1][j - 1], match_mismatch_score),
             Add(st.D[i - 1][j - 1], match_mismatch_score))

\* the three tests made with > as smith_waterman makes its test
AffTrackStrict(st, i, j) ==
    LET t1 == IF st.M[i][j] > st.max_score
              THEN [st EXCEPT !.max_score = st.M[i][j], !.max_pos = <<i, j, "M">>]
              ELSE st
        t2 == IF t1.I[i][j] > t1.max_score
              THEN [t1 EXCEPT !.max_score = t1.I[i][j], !.max_pos = <<i, j, "I">>]
              ELSE t1
    IN  IF t2.D[i][j] > t2.max_score
        THEN [t2 EXCEPT !.max_score = t2.D[i][j], !.max_pos = <<i, j, "D">>]
        ELSE t2

\* lines 75-83: the three >= tests, in the order M, I, D
AffTrack(st, i, j) ==
    LET t1 == IF st.M[i][j] >= st.max_score
              THEN [st EXCEPT !.max_score = st.M[i][j], !.max_pos = <<i, j, "M">>]
              ELSE st
        t2 == IF t1.I[i][j] >= t1.max_score
              THEN [t1 EXCEPT !.max_score = t1.I[i][j], !.max_pos = <<i, j, "I">>]
              ELSE t1
    IN  IF t2.D[i][j] >= t2.max_score
        THEN [t2 EXCEPT !.max_score = t2.D[i][j], !.max_pos = <<i, j, "D">>]
        ELSE t2

\* lines 47-83: the fill loops; st = [M, I, D, max_score, max_pos]
RECURSIVE AffFill(_, _, _, _, _, _, _, _, _)
AffFill(st, i, j, s1, s2, ms, mp, go, ge) ==
    IF i > Len(s1) THEN st
    ELSE IF j > Len(s2) THEN AffFill(st, i + 1, 1, s1, s2, ms, mp, go, ge)
    ELSE LET stI == [st  EXCEPT !.I[i][j] = AffI(st, i, j, go, ge)]
             stD == [stI EXCEPT !.D[i][j] = AffD(stI, i, j, go, ge)]
             stM == [stD EXCEPT !.M[i][j] = AffM(stD, i, j, s1, s2, ms, mp)]
         IN  AffFill(AffTrack(stM, i, j), i, j + 1, s1, s2, ms, mp, go, ge)

\* lines 48-83: the loop over j for one i, a row of M, I and D
RECURSIVE AffFillRow(_, _, _, _, _, _, _, _, _)
AffFillRow(st, i, j, s1, s2, ms, mp, go, ge) ==
    IF j > Len(s2) THEN st
    ELSE LET stI == [st  EXCEPT !.I[i][j] = AffI(st, i, j, go, ge)]
             stD == [stI EXCEPT !.D[i][j] = AffD(stI, i, j, go, ge)]
             stM == [stD EXCEPT !.M[i][j] = AffM(stD, i, j, s1, s2, ms, mp)]
         IN  AffFillRow(AffTrack(stM, i, j), i, j + 1, s1, s2, ms, mp, go, ge)

AffFilled(s1, s2, ms, mp, go, ge) ==
    LET m == Len(s1)
        n == Len(s2)
    IN  AffFill([M |-> Matrix(m, n, 0), I |-> Matrix(m, n, NEG_INF),
                 D |-> Matrix(m, n, NEG_INF), max_score |-> 0, max_pos |-> <<0, 0, "M">>],
                1, 1, s1, s2, ms, mp, go, ge)

\* lines 91-150: one pass of the loop body from walker w = [i, j, current_matrix,
\* a1, a2, stop]; stop is set where the code breaks
AffStep(st, w, s1, s2, ms, mp, go, ge) ==
    LET i == w.i
        j == w.j
    IN  IF w.current_matrix = "M"
        THEN IF st.M[i][j] <= 0 THEN [w EXCEPT !.stop = TRUE]
             ELSE LET match_mismatch_score == PairScore(s1[i], s2[j], ms, mp)
                      moved == [w EXCEPT !.a1 = Append(w.a1, s1[i]),
                                         !.a2 = Append(w.a2, s2[j]),
                                         !.i = i - 1, !.j = j - 1]
                  IN  IF st.M[i][j] = Add(st.M[i - 1][j - 1], match_mismatch_score)
                      THEN [moved EXCEPT !.current_matrix = "M"]
                      ELSE IF st.M[i][j] = Add(st.I[i - 1][j - 1], match_mismatch_score)
                      THEN [moved EXCEPT !.current_matrix = "I"]
                      ELSE IF st.M[i][j] = Add(st.D[i - 1][j - 1], match_mismatch_score)
                      THEN [moved EXCEPT !.current_matrix = "D"]
                      ELSE [w EXCEPT !.stop = TRUE]
        ELSE IF w.current_matrix = "I"
        THEN IF st.I[i][j] <= 0 THEN [w EXCEPT !.stop = TRUE]
             ELSE LET j2    == j - 1
                      moved == [w EXCEPT !.a1 = Append(w.a1, Gap),
                                         !.a2 = Append(w.a2, s2[j]),
                                         !.j = j2]
                  IN  \* the tests of lines 126-130 read the already decremented j
                      IF st.I[i][j2] = Add(Add(PyAt(st.M, i, j2 - 1), go), ge)
                      THEN [moved EXCEPT !.current_matrix = "M"]
                      ELSE IF st.I[i][j2] = Add(PyAt(st.I, i, j2 - 1), ge)
                      THEN [moved EXCEPT !.current_matrix = "I"]
                      ELSE IF st.I[i][j2] = Add(Add(PyAt(st.D, i, j2 - 1), go), ge)
                      THEN [moved EXCEPT !.current_matrix = "D"]
                      ELSE [moved EXCEPT !.stop = TRUE]
        ELSE IF st.D[i][j] <= 0 THEN [w EXCEPT !.stop = TRUE]
             ELSE LET i2    == i - 1
                      moved == [w EXCEPT !.a1 = Append(w.a1, s1[i]),
                                         !.a2 = Append(w.a2, Gap),
                                         !.i = i2]
                  IN  \* the tests of lines 143-147 read the already decremented i
                      IF st.D[i2][j] = Add(Add(PyAt(st.M, i2 - 1, j), go), ge)
                      THEN [moved EXCEPT !.current_matrix = "M"]
                      ELSE IF st.D[i2][j] = Add(PyAt(st.D, i2 - 1, j), ge)
                      THEN [moved EXCEPT !.current_matrix = "D"]
                      ELSE IF st.D[i2][j] = Add(Add(PyAt(st.I, i2 - 1, j), go), ge)
                      THEN [moved EXCEPT !.current_matrix = "I"]
                      ELSE [moved EXCEPT !.stop = TRUE]

\* line 90 and the breaks
RECURSIVE AffTrace(_, _, _, _, _, _, _, _)
AffTrace(st, w, s1, s2, ms, mp, go, ge) ==
    IF ~(w.i > 0 /\ w.j > 0) \/ w.stop THEN w
    ELSE AffTrace(st, AffStep(st, w, s1, s2, ms, mp, go, ge), s1, s2, ms, mp, go, ge)

smith_waterman_affine(s1, s2, ms, mp, go, ge) ==
    LET st == AffFilled(s1, s2, ms, mp, go, ge)
        w0 == [i |-> st.max_pos[1], j |-> st.max_pos[2], current_matrix |-> st.max_pos[3],
               a1 |-> <<>>, a2 |-> <<>>, stop |-> FALSE]
        w  == AffTrace(st, w0, s1, s2, ms, mp, go, ge)
    IN  Result(Reverse(w.a1), Reverse(w.a2), st.max_score)

(***************************************************************************)
(* The callers: a pair of sequences and a scoring scheme are fixed, and    *)
(* each aligner is called on them once, in any order.                      *)
(***************************************************************************)
InitWith(Seqs, Mismatch, Gapp, Affine) ==
    /\ seq1 \in Seqs
    /\ seq2 \in Seqs
    /\ match_score \in MatchScores
    /\ mismatch_penalty \in Mismatch
    /\ gap_penalty \in Gapp
    /\ \E g \in Affine : gap_open = g[1] /\ gap_extend = g[2]
    /\ nw = NotCalled
    /\ hb = NotCalled
    /\ sw = NotCalled
    /\ swa = NotCalled
    /\ nws = NoRow
    /\ stack = <<>>
    /\ tb = NoWalk

\* smith_waterman_affine.py lines 18-19: the default gap_open and gap_extend
DefaultAffine == {<<-3, -1>>}

\* any strings, those holding the gap character included, and all four aligners
Init ==
    InitWith(SeqsUpTo(Symbols, MaxLocalLen) \cup SeqsUpTo(SymbolsWithGap, MaxAnyLen),
             MismatchPenalties, AnyGapPenalties, AnyAffineGaps)

\* gap-free sequences for the two global aligners
InitGlobal ==
    InitWith(SeqsUpTo(Symbols, MaxLen), MismatchPenalties, GapPenalties, DefaultAffine)

\* gap-free sequences for the two local aligners
InitLocal ==
    InitWith(SeqsUpTo(Symbols, MaxLocalLen), LocalMismatchPenalties, LocalGapPenalties,
             AffineGaps)

\* gap-free sequences short enough to enumerate every alignment of them
InitOpt ==
    InitWith(SeqsUpTo(Symbols, MaxOptLen), MismatchPenalties, GapPenalties, DefaultAffine)

\* strings that may hold the gap character, for the two local aligners
InitLocalAny ==
    InitWith(SeqsUpTo(SymbolsWithGap, MaxGapLen), {-1}, {-1}, DefaultAffine)

CallNeedlemanWunsch ==
    /\ ~nw.returned
    /\ nw' = needleman_wunsch(seq1, seq2, match_score, mismatch_penalty, gap_penalty)
    /\ UNCHANGED <<inputs, hb, sw, swa, nws, stack, tb>>

CallHirschberg ==
    /\ ~hb.returned
    /\ hb' = hirschberg(seq1, seq2, match_score, mismatch_penalty, gap_penalty)
    /\ UNCHANGED <<inputs, nw, sw, swa, nws, stack, tb>>

CallSmithWaterman ==
    /\ ~sw.returned
    /\ sw' = smith_waterman(seq1, seq2, match_score, mismatch_penalty, gap_penalty)
    /\ UNCHANGED <<inputs, nw, hb, swa, nws, stack, tb>>

CallSmithWatermanAffine ==
    /\ ~swa.returned
    /\ swa' = smith_waterman_affine(seq1, seq2, match_score, mismatch_penalty,
                                    gap_open, gap_extend)
    /\ UNCHANGED <<inputs, nw, hb, sw, nws, stack, tb>>

\* hirschberg.py line 171: a call of nw_score on the whole of seq1 and seq2
CallNwScore ==
    /\ ~nws.returned
    /\ nws' = [value |-> nw_score(seq1, seq2, match_score, mismatch_penalty, gap_penalty),
               returned |-> TRUE]
    /\ UNCHANGED <<inputs, nw, hb, sw, swa, stack, tb>>

\* the caller calls hirschberg(seq1, seq2, ...)
HEnter ==
    /\ ~hb.returned
    /\ stack = <<>>
    /\ stack' = <<Frame(seq1, seq2)>>
    /\ UNCHANGED <<inputs, nw, hb, sw, swa, nws, tb>>

\* lines 95-164: a base case returns
HReturnBase ==
    /\ stack # <<>>
    /\ Top.pc = "entry"
    /\ IsBase(Top.seq1, Top.seq2)
    /\ Return(HBase(Top.seq1, Top.seq2, match_score, mismatch_penalty, gap_penalty))
    /\ UNCHANGED <<inputs, nw, sw, swa, nws, tb>>

\* lines 166-171 and 43-47: the divide step is entered, nw_score is called on
\* the left half and sets up its two rows
HBeginScoreLeft ==
    /\ stack # <<>>
    /\ Top.pc = "entry"
    /\ ~IsBase(Top.seq1, Top.seq2)
    /\ stack' = SetTop(NwStart(Top, "nw_left", gap_penalty))
    /\ UNCHANGED <<inputs, nw, hb, sw, swa, nws, tb>>

\* lines 49-64: one pass of the loop over i in nw_score: curr_row is filled
\* from prev_row and the two rows are swapped
HScoreRow ==
    /\ stack # <<>>
    /\ Top.pc \in {"nw_left", "nw_right"}
    /\ Top.i <= Len(NwSeq1(Top))
    /\ stack' = SetTop([Top EXCEPT
                           !.prev_row = NwScoreRow([Top.curr_row EXCEPT ![0] = Top.i * gap_penalty],
                                                   Top.prev_row, Top.i, 1,
                                                   NwSeq1(Top), NwSeq2(Top), match_score,
                                                   mismatch_penalty, gap_penalty),
                           !.curr_row = Top.prev_row,
                           !.i = Top.i + 1])
    /\ UNCHANGED <<inputs, nw, hb, sw, swa, nws, tb>>

\* lines 66, 171 and 175: nw_score returns prev_row, which becomes score_left,
\* and nw_score is called on the reversed right half
HEndScoreLeft ==
    /\ stack # <<>>
    /\ Top.pc = "nw_left"
    /\ Top.i > Len(NwSeq1(Top))
    /\ stack' = SetTop(NwStart([Top EXCEPT !.score_left = Top.prev_row],
                               "nw_right", gap_penalty))
    /\ UNCHANGED <<inputs, nw, hb, sw, swa, nws, tb>>

\* lines 66 and 175-178: nw_score returns prev_row, which becomes score_right
\* and is reversed
HEndScoreRight ==
    /\ stack # <<>>
    /\ Top.pc = "nw_right"
    /\ Top.i > Len(NwSeq1(Top))
    /\ stack' = SetTop([Top EXCEPT
                           !.score_right = Reverse2(Top.prev_row, Len(Top.seq2)),
                           !.prev_row = <<>>,
                           !.curr_row = <<>>,
                           !.pc = "scan"])
    /\ UNCHANGED <<inputs, nw, hb, sw, swa, nws, tb>>

\* lines 181-188
HFindSplit ==
    /\ stack # <<>>
    /\ Top.pc = "scan"
    /\ stack' = SetTop([Top EXCEPT
                           !.split = Split(Top.score_left, Top.score_right, Len(Top.seq2)),
                           !.pc = "call_left"])
    /\ UNCHANGED <<inputs, nw, hb, sw, swa, nws, tb>>

\* lines 191-194
HCallLeft ==
    /\ stack # <<>>
    /\ Top.pc = "call_left"
    /\ stack' = Append(SetTop([Top EXCEPT !.pc = "wait_left"]),
                       Frame(Prefix(Top.seq1, Mid(Len(Top.seq1))),
                             Prefix(Top.seq2, Top.split)))
    /\ UNCHANGED <<inputs, nw, hb, sw, swa, nws, tb>>

\* lines 196-199
HCallRight ==
    /\ stack # <<>>
    /\ Top.pc = "call_right"
    /\ stack' = Append(SetTop([Top EXCEPT !.pc = "wait_right"]),
                       Frame(Suffix(Top.seq1, Mid(Len(Top.seq1))),
                             Suffix(Top.seq2, Top.split)))
    /\ UNCHANGED <<inputs, nw, hb, sw, swa, nws, tb>>

\* lines 202-206
HReturnCombine ==
    /\ stack # <<>>
    /\ Top.pc = "combine"
    /\ Return(Result(Top.left.aligned_seq1 \o Top.right.aligned_seq1,
                     Top.left.aligned_seq2 \o Top.right.aligned_seq2,
                     Top.left.score + Top.right.score))
    /\ UNCHANGED <<inputs, nw, sw, swa, nws, tb>>

(***************************************************************************)
(* The tracebacks pass by pass: tb holds the filled matrices st, the walker *)
(* w and the number of passes of the loop made so far.                     *)
(***************************************************************************)
\* needleman_wunsch.py lines 26-35: the call sets up dp with its first row
\* and column
NWBeginFill ==
    /\ ~nw.returned
    /\ tb.pc = "none"
    /\ tb' = [alg |-> "nw", pc |-> "fill",
              st |-> [dp |-> NWInit(Len(seq1), Len(seq2), gap_penalty)],
              w |-> [i |-> 1], steps |-> 0]
    /\ UNCHANGED <<inputs, nw, hb, sw, swa, nws, stack>>

\* needleman_wunsch.py lines 38-48: one pass of the loop over i fills a row
NWFillRowStep ==
    /\ tb.alg = "nw"
    /\ tb.pc = "fill"
    /\ tb.w.i <= Len(seq1)
    /\ tb' = [tb EXCEPT !.st = [dp |-> NWFillRow(tb.st.dp, tb.w.i, 1, seq1, seq2,
                                                 match_score, mismatch_penalty,
                                                 gap_penalty)],
                        !.w = [i |-> tb.w.i + 1]]
    /\ UNCHANGED <<inputs, nw, hb, sw, swa, nws, stack>>

\* needleman_wunsch.py lines 51-53: the fill has ended, i, j = m, n
NWEndFill ==
    /\ tb.alg = "nw"
    /\ tb.pc = "fill"
    /\ tb.w.i > Len(seq1)
    /\ tb' = [tb EXCEPT !.pc = "loop",
                        !.w = [i |-> Len(seq1), j |-> Len(seq2), a1 |-> <<>>, a2 |-> <<>>]]
    /\ UNCHANGED <<inputs, nw, hb, sw, swa, nws, stack>>

\* needleman_wunsch.py lines 55-80: one pass of while i > 0 or j > 0
NWTraceStep ==
    /\ tb.alg = "nw"
    /\ tb.pc = "loop"
    /\ tb.w.i > 0 \/ tb.w.j > 0
    /\ tb' = [tb EXCEPT !.w = NWStep(tb.st.dp, tb.w, seq1, seq2, match_score,
                                     mismatch_penalty, gap_penalty),
                        !.steps = tb.steps + 1]
    /\ UNCHANGED <<inputs, nw, hb, sw, swa, nws, stack>>

\* needleman_wunsch.py lines 82-85: the loop has ended, the strings are
\* reversed and returned with dp[m][n]
NWEndTrace ==
    /\ tb.alg = "nw"
    /\ tb.pc = "loop"
    /\ ~(tb.w.i > 0 \/ tb.w.j > 0)
    /\ tb' = [tb EXCEPT !.pc = "done"]
    /\ nw' = Result(Reverse(tb.w.a1), Reverse(tb.w.a2), tb.st.dp[Len(seq1)][Len(seq2)])
    /\ UNCHANGED <<inputs, hb, sw, swa, nws, stack>>

\* smith_waterman.py lines 26-31: the call sets up dp, max_score and max_pos
SWBeginFill ==
    /\ ~sw.returned
    /\ tb.pc = "none"
    /\ tb' = [alg |-> "sw", pc |-> "fill",
              st |-> [dp |-> Matrix(Len(seq1), Len(seq2), 0), max_score |-> 0,
                      max_pos |-> <<0, 0>>],
              w |-> [i |-> 1], steps |-> 0]
    /\ UNCHANGED <<inputs, nw, hb, sw, swa, nws, stack>>

\* smith_waterman.py lines 34-50: one pass of the loop over i fills a row
SWFillRowStep ==
    /\ tb.alg = "sw"
    /\ tb.pc = "fill"
    /\ tb.w.i <= Len(seq1)
    /\ tb' = [tb EXCEPT !.st = SWFillRow(tb.st, tb.w.i, 1, seq1, seq2, match_score,
                                         mismatch_penalty, gap_penalty),
                        !.w = [i |-> tb.w.i + 1]]
    /\ UNCHANGED <<inputs, nw, hb, sw, swa, nws, stack>>

\* smith_waterman.py lines 53-55: the fill has ended, i, j = max_pos
SWEndFill ==
    /\ tb.alg = "sw"
    /\ tb.pc = "fill"
    /\ tb.w.i > Len(seq1)
    /\ tb' = [tb EXCEPT !.pc = "loop", !.w = SWStart(tb.st, Len(seq1), Len(seq2))]
    /\ UNCHANGED <<inputs, nw, hb, sw, swa, nws, stack>>

\* smith_waterman.py lines 57-73: one pass of while i > 0 and j > 0 and dp[i][j] > 0
SWTraceStep ==
    /\ tb.alg = "sw"
    /\ tb.pc = "loop"
    /\ SWContinue(tb.st.dp, tb.w.i, tb.w.j)
    /\ tb' = [tb EXCEPT !.w = SWStep(tb.st.dp, tb.w, seq1, seq2, match_score,
                                     mismatch_penalty, gap_penalty),
                        !.steps = tb.steps + 1]
    /\ UNCHANGED <<inputs, nw, hb, sw, swa, nws, stack>>

\* smith_waterman.py lines 75-78: the loop has ended, the strings are reversed
\* and returned with max_score
SWEndTrace ==
    /\ tb.alg = "sw"
    /\ tb.pc = "loop"
    /\ ~SWContinue(tb.st.dp, tb.w.i, tb.w.j)
    /\ tb' = [tb EXCEPT !.pc = "done"]
    /\ sw' = Result(Reverse(tb.w.a1), Reverse(tb.w.a2), tb.st.max_score)
    /\ UNCHANGED <<inputs, nw, hb, swa, nws, stack>>

\* smith_waterman_affine.py lines 33-44: the call sets up M, I, D, max_score
\* and max_pos
AffBeginFill ==
    /\ ~swa.returned
    /\ tb.pc = "none"
    /\ tb' = [alg |-> "swa", pc |-> "fill",
              st |-> [M |-> Matrix(Len(seq1), Len(seq2), 0),
                      I |-> Matrix(Len(seq1), Len(seq2), NEG_INF),
                      D |-> Matrix(Len(seq1), Len(seq2), NEG_INF),
                      max_score |-> 0, max_pos |-> <<0, 0, "M">>],
              w |-> [i |-> 1], steps |-> 0]
    /\ UNCHANGED <<inputs, nw, hb, sw, swa, nws, stack>>

\* smith_waterman_affine.py lines 47-83: one pass of the loop over i fills a row
AffFillRowStep ==
    /\ tb.alg = "swa"
    /\ tb.pc = "fill"
    /\ tb.w.i <= Len(seq1)
    /\ tb' = [tb EXCEPT !.st = AffFillRow(tb.st, tb.w.i, 1, seq1, seq2, match_score,
                                          mismatch_penalty, gap_open, gap_extend),
                        !.w = [i |-> tb.w.i + 1]]
    /\ UNCHANGED <<inputs, nw, hb, sw, swa, nws, stack>>

\* smith_waterman_affine.py lines 86-88: the fill has ended,
\* i, j, current_matrix = max_pos
AffEndFill ==
    /\ tb.alg = "swa"
    /\ tb.pc = "fill"
    /\ tb.w.i > Len(seq1)
    /\ tb' = [tb EXCEPT !.pc = "loop",
                        !.w = [i |-> tb.st.max_pos[1], j |-> tb.st.max_pos[2],
                               current_matrix |-> tb.st.max_pos[3],
                               a1 |-> <<>>, a2 |-> <<>>, stop |-> FALSE]]
    /\ UNCHANGED <<inputs, nw, hb, sw, swa, nws, stack>>

\* smith_waterman_affine.py lines 90-150: one pass of while i > 0 and j > 0,
\* a break included
AffTraceStep ==
    /\ tb.alg = "swa"
    /\ tb.pc = "loop"
    /\ tb.w.i > 0 /\ tb.w.j > 0 /\ ~tb.w.stop
    /\ tb' = [tb EXCEPT !.w = AffStep(tb.st, tb.w, seq1, seq2, match_score,
                                      mismatch_penalty, gap_open, gap_extend),
                        !.steps = tb.steps + 1]
    /\ UNCHANGED <<inputs, nw, hb, sw, swa, nws, stack>>

\* smith_waterman_affine.py lines 152-155: the loop has ended, the strings
\* are reversed and returned with max_score
AffEndTrace ==
    /\ tb.alg = "swa"
    /\ tb.pc = "loop"
    /\ ~(tb.w.i > 0 /\ tb.w.j > 0 /\ ~tb.w.stop)
    /\ tb' = [tb EXCEPT !.pc = "done"]
    /\ swa' = Result(Reverse(tb.w.a1), Reverse(tb.w.a2), tb.st.max_score)
    /\ UNCHANGED <<inputs, nw, hb, sw, nws, stack>>

Next ==
    \/ CallNeedlemanWunsch
    \/ CallHirschberg
    \/ CallSmithWaterman
    \/ CallSmithWatermanAffine

NextGlobal ==
    \/ CallNeedlemanWunsch
    \/ CallHirschberg

NextLocal ==
    \/ CallSmithWaterman
    \/ CallSmithWatermanAffine

\* nw_score beside needleman_wunsch
NextRows ==
    \/ CallNwScore
    \/ CallNeedlemanWunsch

\* hirschberg call by call
NextStack ==
    \/ HEnter
    \/ HReturnBase
    \/ HBeginScoreLeft
    \/ HScoreRow
    \/ HEndScoreLeft
    \/ HEndScoreRight
    \/ HFindSplit
    \/ HCallLeft
    \/ HCallRight
    \/ HReturnCombine

\* gap-free sequences for hirschberg run call by call
InitStack ==
    InitWith(SeqsUpTo(Symbols, MaxStackLen), {-1}, AnyGapPenalties, DefaultAffine)

\* needleman_wunsch with its fill row by row and its traceback pass by pass
NextNWTrace ==
    \/ NWBeginFill
    \/ NWFillRowStep
    \/ NWEndFill
    \/ NWTraceStep
    \/ NWEndTrace

\* gap-free sequences for needleman_wunsch run pass by pass
InitNWTrace ==
    InitWith(SeqsUpTo(Symbols, MaxTraceLen), MismatchPenalties, GapPenalties, DefaultAffine)

\* smith_waterman with its fill row by row and its traceback pass by pass
NextSWTrace ==
    \/ SWBeginFill
    \/ SWFillRowStep
    \/ SWEndFill
    \/ SWTraceStep
    \/ SWEndTrace

\* gap-free sequences for smith_waterman run pass by pass
InitSWTrace ==
    InitWith(SeqsUpTo(Symbols, MaxTraceLen), LocalMismatchPenalties, LocalGapPenalties,
             DefaultAffine)

\* smith_waterman_affine with its fill row by row and its traceback pass by pass
NextAffTrace ==
    \/ AffBeginFill
    \/ AffFillRowStep
    \/ AffEndFill
    \/ AffTraceStep
    \/ AffEndTrace

\* gap-free sequences for smith_waterman_affine run pass by pass
InitAffTrace ==
    InitWith(SeqsUpTo(Symbols, MaxAffLen), LocalMismatchPenalties, {-1}, AffineGaps)

Spec == Init /\ [][Next]_vars
SpecGlobal == InitGlobal /\ [][NextGlobal]_vars
SpecLocal == InitLocal /\ [][NextLocal]_vars
SpecOpt == InitOpt /\ [][NextGlobal]_vars
SpecLocalAny == InitLocalAny /\ [][NextLocal]_vars
SpecRows == InitGlobal /\ [][NextRows]_vars
SpecStack == InitStack /\ [][NextStack]_vars
\* a call that can take a step takes it: the interpreter runs the call to its end
SpecStackFair == SpecStack /\ WF_vars(NextStack)
SpecNWTrace == InitNWTrace /\ [][NextNWTrace]_vars
SpecSWTrace == InitSWTrace /\ [][NextSWTrace]_vars
SpecAffTrace == InitAffTrace /\ [][NextAffTrace]_vars
SpecAffTraceFair == SpecAffTrace /\ WF_vars(AffTraceStep) /\ WF_vars(AffEndTrace)
\* a traceback loop that can make a pass makes it, and one that has ended returns
SpecNWTraceFair == SpecNWTrace /\ WF_vars(NWTraceStep) /\ WF_vars(NWEndTrace)

(***************************************************************************)
(* Vocabulary of the properties.                                           *)
(***************************************************************************)
Degap(s) == SelectSeq(s, LAMBDA c : c # Gap)

GapFree(s) == \A k \in 1..Len(s) : s[k] # Gap

HasGap(s) == \E k \in 1..Len(s) : s[k] = Gap

\* equal length and no column with the gap symbol on both sides
WellFormed(r) ==
    /\ Len(r.aligned_seq1) = Len(r.aligned_seq2)
    /\ \A k \in 1..Len(r.aligned_seq1) :
          ~(r.aligned_seq1[k] = Gap /\ r.aligned_seq2[k] = Gap)

ColumnScore(x, y, ms, mp, gp) ==
    IF x = Gap \/ y = Gap THEN gp ELSE IF x = y THEN ms ELSE mp

RECURSIVE SumColumns(_, _, _, _, _, _)
SumColumns(a1, a2, k, ms, mp, gp) ==
    IF k = 0 THEN 0
    ELSE SumColumns(a1, a2, k - 1, ms, mp, gp) + ColumnScore(a1[k], a2[k], ms, mp, gp)

\* the sum of the column scores of an aligned pair of equal length
Rescore(a1, a2) == SumColumns(a1, a2, Len(a1), match_score, mismatch_penalty, gap_penalty)

DefaultGlobalScheme == match_score = 1 /\ mismatch_penalty = -1 /\ gap_penalty = -1
DefaultLocalScheme == match_score = 2 /\ mismatch_penalty = -1 /\ gap_penalty = -1

(***************************************************************************)
(* C1: whenever needleman_wunsch and hirschberg have both returned for the *)
(* same sequences and scheme, their scores are equal.                      *)
(***************************************************************************)
C1_ScoresEqual == (nw.returned /\ hb.returned) => hb.score = nw.score

\* both have returned on sequences long enough for two levels of division
C1_Witness ==
    /\ nw.returned /\ hb.returned
    /\ Len(seq1) = MaxLen /\ Len(seq2) = MaxLen
    /\ seq1 # seq2
    /\ hb.score = nw.score

(***************************************************************************)
(* C2 as stated: every aligner that has returned, on any input, returned   *)
(* two strings of equal length with no gap-gap column.                     *)
(***************************************************************************)
C2_AnyInputWellFormed ==
    /\ nw.returned => WellFormed(nw)
    /\ hb.returned => WellFormed(hb)
    /\ sw.returned => WellFormed(sw)
    /\ swa.returned => WellFormed(swa)

(***************************************************************************)
(* C2 amended: when neither input sequence holds the gap symbol, every     *)
(* aligner that has returned returned two strings of equal length with no  *)
(* gap-gap column.                                                         *)
(***************************************************************************)
C2_GapFreeWellFormed == (GapFree(seq1) /\ GapFree(seq2)) => C2_AnyInputWellFormed

\* all four have returned on gap-free input, with gaps on both sides of the
\* global alignments and a non-empty local alignment
C2_Witness ==
    /\ GapFree(seq1) /\ GapFree(seq2)
    /\ gap_penalty < 0
    /\ nw.returned /\ hb.returned /\ sw.returned /\ swa.returned
    /\ HasGap(nw.aligned_seq1) /\ HasGap(nw.aligned_seq2)
    /\ HasGap(hb.aligned_seq1) /\ HasGap(hb.aligned_seq2)
    /\ Len(sw.aligned_seq1) > 0 /\ Len(swa.aligned_seq1) > 0

(***************************************************************************)
(* C3: for gap-free inputs, removing the gap symbols from the strings      *)
(* returned by needleman_wunsch and by hirschberg gives seq1 and seq2.     *)
(***************************************************************************)
C3_RoundTrip ==
    (GapFree(seq1) /\ GapFree(seq2)) =>
        /\ nw.returned => Degap(nw.aligned_seq1) = seq1 /\ Degap(nw.aligned_seq2) = seq2
        /\ hb.returned => Degap(hb.aligned_seq1) = seq1 /\ Degap(hb.aligned_seq2) = seq2

\* both returned alignments hold gaps, so removing them changes the strings
C3_Witness ==
    /\ nw.returned /\ hb.returned
    /\ gap_penalty < 0
    /\ Len(seq1) >= 2 /\ Len(seq2) >= 2
    /\ HasGap(nw.aligned_seq1) /\ HasGap(hb.aligned_seq1)
    /\ HasGap(nw.aligned_seq2) /\ HasGap(hb.aligned_seq2)
    /\ Degap(hb.aligned_seq1) = seq1 /\ Degap(nw.aligned_seq2) = seq2

(***************************************************************************)
(* Every global alignment of s1 and s2 with no gap-gap column, as a pair   *)
(* of strings: the last column pairs the two last symbols, or puts the     *)
(* last symbol of s1 over a gap, or a gap over the last symbol of s2.      *)
(***************************************************************************)
RECURSIVE Alignments(_, _)
Alignments(s1, s2) ==
    LET m  == Len(s1)
        n  == Len(s2)
        f1 == SubSeq(s1, 1, m - 1)
        f2 == SubSeq(s2, 1, n - 1)
    IN  IF m = 0 /\ n = 0 THEN {<<<<>>, <<>>>>}
        ELSE (IF m > 0 /\ n > 0
              THEN {<<Append(p[1], s1[m]), Append(p[2], s2[n])>> : p \in Alignments(f1, f2)}
              ELSE {})
             \cup
             (IF m > 0
              THEN {<<Append(p[1], s1[m]), Append(p[2], Gap)>> : p \in Alignments(f1, s2)}
              ELSE {})
             \cup
             (IF n > 0
              THEN {<<Append(p[1], Gap), Append(p[2], s2[n])>> : p \in Alignments(s1, f2)}
              ELSE {})

SetMax(S) == CHOOSE b \in S : \A x \in S : x <= b

\* the largest column-score sum over the alignments al
BestScore(al) == SetMax({Rescore(p[1], p[2]) : p \in al})

\* the alignments of al that reach the largest sum
OptimalAlignments(al) ==
    LET best == BestScore(al)
    IN  {p \in al : Rescore(p[1], p[2]) = best}

\* cell[i][j] of section 4.2, by its recurrence
RECURSIVE cell(_, _)
cell(i, j) ==
    IF i = 0 THEN j * gap_penalty
    ELSE IF j = 0 THEN i * gap_penalty
    ELSE Max3(cell(i - 1, j - 1)
                  + (IF seq1[i] = seq2[j] THEN match_score ELSE mismatch_penalty),
              cell(i - 1, j) + gap_penalty,
              cell(i, j - 1) + gap_penalty)

(***************************************************************************)
(* C4: the score needleman_wunsch returns is cell[m][n], it is the largest *)
(* column-score sum over all global alignments of seq1 and seq2 without a  *)
(* gap-gap column, and the returned pair is one of those alignments and    *)
(* sums to that score.                                                     *)
(***************************************************************************)
C4_NWOptimal ==
    LET al == Alignments(seq1, seq2)
    IN  nw.returned =>
            /\ nw.score = cell(Len(seq1), Len(seq2))
            /\ nw.score = BestScore(al)
            /\ <<nw.aligned_seq1, nw.aligned_seq2>> \in al
            /\ Rescore(nw.aligned_seq1, nw.aligned_seq2) = nw.score

\* the returned alignment beats some other alignment and holds a gap
C4_Witness ==
    /\ nw.returned
    /\ mismatch_penalty < 0 /\ gap_penalty < 0
    /\ Len(seq1) = MaxOptLen /\ Len(seq2) >= 2
    /\ HasGap(nw.aligned_seq1)
    /\ LET al == Alignments(seq1, seq2)
       IN  /\ nw.score = BestScore(al)
           /\ \E p \in al : Rescore(p[1], p[2]) < nw.score

(***************************************************************************)
(* C5: the pair hirschberg returns is a global alignment of seq1 and seq2  *)
(* whose columns sum to the score hirschberg returns, and that score is    *)
(* the largest over all global alignments, also when needleman_wunsch      *)
(* returns another pair.                                                   *)
(***************************************************************************)
C5_HBRescores ==
    LET al == Alignments(seq1, seq2)
    IN  hb.returned =>
            /\ <<hb.aligned_seq1, hb.aligned_seq2>> \in al
            /\ Rescore(hb.aligned_seq1, hb.aligned_seq2) = hb.score
            /\ hb.score = BestScore(al)

\* hirschberg went through its divide step and returned an optimal
\* alignment other than the one needleman_wunsch returned
C5_Witness ==
    /\ hb.returned /\ nw.returned
    /\ mismatch_penalty < 0 /\ gap_penalty < 0
    /\ Len(seq1) >= 2 /\ Len(seq2) >= 2
    /\ <<hb.aligned_seq1, hb.aligned_seq2>> # <<nw.aligned_seq1, nw.aligned_seq2>>
    /\ Rescore(hb.aligned_seq1, hb.aligned_seq2) = hb.score
    /\ hb.score = BestScore(Alignments(seq1, seq2))

C7_Identity ==
    (DefaultGlobalScheme /\ seq1 = seq2 /\ seq1 # <<>>) =>
        /\ nw.returned => nw = Result(seq1, seq1, Len(seq1) * match_score)
        /\ hb.returned => hb = Result(seq1, seq1, Len(seq1) * match_score)

\* both have returned for a longest S with two different symbols
C7_Witness ==
    /\ DefaultGlobalScheme
    /\ seq1 = seq2 /\ Len(seq1) = MaxLen
    /\ \E k \in 1..Len(seq1) : seq1[k] # seq1[1]
    /\ nw.returned /\ hb.returned
    /\ hb.score = MaxLen

(***************************************************************************)
(* C8: with seq1 empty both global aligners return                         *)
(* ('-' * len(seq2), seq2, len(seq2) * gap_penalty); with seq2 empty they  *)
(* return (seq1, '-' * len(seq1), len(seq1) * gap_penalty).                *)
(***************************************************************************)
C8_EmptySequence ==
    /\ seq1 = <<>> =>
          LET r == Result(Gaps(Len(seq2)), seq2, Len(seq2) * gap_penalty)
          IN  (nw.returned => nw = r) /\ (hb.returned => hb = r)
    /\ seq2 = <<>> =>
          LET r == Result(seq1, Gaps(Len(seq1)), Len(seq1) * gap_penalty)
          IN  (nw.returned => nw = r) /\ (hb.returned => hb = r)

\* the example of the specification: ("", "ACG"-like three symbols, gap -1)
C8_Witness ==
    /\ seq1 = <<>> /\ Len(seq2) = 3 /\ gap_penalty = -1
    /\ nw.returned /\ hb.returned
    /\ nw.aligned_seq1 = <<Gap, Gap, Gap>> /\ hb.score = -3

(***************************************************************************)
(* C9: the score smith_waterman returns is never negative.                 *)
(***************************************************************************)
C9_LocalScoreNonNegative == sw.returned => sw.score >= 0

\* smith_waterman returned 0 where every pairing and every gap costs
C9_Witness ==
    /\ sw.returned
    /\ seq1 # <<>> /\ seq2 # <<>>
    /\ mismatch_penalty < 0 /\ gap_penalty < 0
    /\ sw.score = 0

NoCommonSymbol ==
    \A a \in 1..Len(seq1) : \A b \in 1..Len(seq2) : seq1[a] # seq2[b]

EmptyLocal == Result(<<>>, <<>>, 0)

(***************************************************************************)
(* C10 as stated: for sequences with no symbol in common, smith_waterman   *)
(* returns score 0 and two empty strings.                                  *)
(***************************************************************************)
C10_AllMismatchEmpty == (sw.returned /\ NoCommonSymbol) => sw = EmptyLocal

(***************************************************************************)
(* C10 amended: for sequences with no symbol in common, smith_waterman     *)
(* returns score 0 and two empty strings when mismatch_penalty <= 0 and    *)
(* gap_penalty <= 0.                                                       *)
(***************************************************************************)
C10_AllMismatchEmptyNoReward ==
    (sw.returned /\ NoCommonSymbol /\ mismatch_penalty <= 0 /\ gap_penalty <= 0)
        => sw = EmptyLocal

\* the AAAA/TTTT shape: two longest non-empty sequences with no common symbol
C10_Witness ==
    /\ sw.returned
    /\ Len(seq1) = MaxLocalLen /\ Len(seq2) = MaxLocalLen
    /\ NoCommonSymbol
    /\ DefaultLocalScheme
    /\ sw = EmptyLocal

\* t is s[k:k + len(t)] for some k
IsSubstring(t, s) ==
    \E k \in 0..(Len(s) - Len(t)) : SubSeq(s, k + 1, k + Len(t)) = t

DegappedAreSubstrings(r) ==
    /\ IsSubstring(Degap(r.aligned_seq1), seq1)
    /\ IsSubstring(Degap(r.aligned_seq2), seq2)

(***************************************************************************)
(* C11 as stated: for every input, the strings returned by smith_waterman  *)
(* and by smith_waterman_affine, with the gap symbols removed, are         *)
(* contiguous substrings of seq1 and of seq2.                              *)
(***************************************************************************)
C11_AnyInputSubstrings ==
    /\ sw.returned => DegappedAreSubstrings(sw)
    /\ swa.returned => DegappedAreSubstrings(swa)

(***************************************************************************)
(* C11 amended: when neither input sequence holds the gap symbol, the      *)
(* strings returned by smith_waterman and by smith_waterman_affine, with   *)
(* the gap symbols removed, are contiguous substrings of seq1 and of seq2. *)
(***************************************************************************)
C11_GapFreeSubstrings == (GapFree(seq1) /\ GapFree(seq2)) => C11_AnyInputSubstrings

\* both returned a proper, non-empty part of gap-free sequences, and the part
\* smith_waterman returned reads differently backwards
C11_Witness ==
    /\ GapFree(seq1) /\ GapFree(seq2)
    /\ sw.returned /\ swa.returned
    /\ Len(sw.aligned_seq1) >= 2 /\ Len(sw.aligned_seq1) < Len(seq1)
    /\ sw.aligned_seq1 # Reverse(sw.aligned_seq1)
    /\ Len(swa.aligned_seq2) >= 1 /\ Len(swa.aligned_seq2) < Len(seq2)
    /\ DegappedAreSubstrings(sw) /\ DegappedAreSubstrings(swa)

\* every s[a:b], the empty string included
Substrings(s) == {SubSeq(s, a, b) : a \in 1..(Len(s) + 1), b \in 0..Len(s)}

\* the largest column-score sum over the global alignments of every pair
\* of substrings of seq1 and seq2
BestSubstringPairScore ==
    SetMax({BestScore(Alignments(x, y)) : x \in Substrings(seq1), y \in Substrings(seq2)})

LinearLocalScheme == match_score > 0 /\ mismatch_penalty < 0 /\ gap_penalty < 0

(***************************************************************************)
(* C12: with match_score > 0, mismatch_penalty < 0 and gap_penalty < 0,    *)
(* the score smith_waterman returns is the larger of 0 and the best        *)
(* global-alignment score over all pairs of substrings of seq1 and seq2,   *)
(* and the columns of the pair it returns sum to that score.               *)
(***************************************************************************)
C12_LocalOptimal ==
    (sw.returned /\ LinearLocalScheme) =>
        /\ sw.score = Max2(0, BestSubstringPairScore)
        /\ Rescore(sw.aligned_seq1, sw.aligned_seq2) = sw.score

\* a positive score reached by a proper part of both sequences, with a gap
C12_Witness ==
    /\ sw.returned /\ LinearLocalScheme
    /\ sw.score > 0
    /\ HasGap(sw.aligned_seq1) \/ HasGap(sw.aligned_seq2)
    /\ Len(Degap(sw.aligned_seq1)) < Len(seq1)
    /\ sw.score = BestSubstringPairScore
    /\ Rescore(sw.aligned_seq1, sw.aligned_seq2) = sw.score

\* the kind of a column: a gap in the first string, in the second, or none
ColumnKind(x, y) == IF x = Gap THEN "I" ELSE IF y = Gap THEN "D" ELSE "M"

\* the sum over the first k columns: match_score or mismatch_penalty for a
\* pair of symbols, gap_open + gap_extend for the first column of a gap run
\* and gap_extend for each further column of the run
RECURSIVE AffineSum(_, _, _)
AffineSum(a1, a2, k) ==
    IF k = 0 THEN 0
    ELSE LET kind == ColumnKind(a1[k], a2[k])
             opens == k = 1 \/ ColumnKind(a1[k - 1], a2[k - 1]) # kind
         IN  AffineSum(a1, a2, k - 1)
             + (IF kind = "M"
                THEN PairScore(a1[k], a2[k], match_score, mismatch_penalty)
                ELSE gap_extend + (IF opens THEN gap_open ELSE 0))

AffineRescore(a1, a2) == AffineSum(a1, a2, Len(a1))

AffineLocalScheme ==
    match_score > 0 /\ mismatch_penalty < 0 /\ gap_open <= 0 /\ gap_extend < 0

(***************************************************************************)
(* C13: with match_score > 0, mismatch_penalty < 0, gap_open <= 0 and      *)
(* gap_extend < 0, the pair smith_waterman_affine returns, scored with     *)
(* match_score or mismatch_penalty per pair of symbols and                 *)
(* gap_open + k * gap_extend per gap run of length k, sums to the score    *)
(* smith_waterman_affine returns.                                          *)
(***************************************************************************)
C13_AffineRescores ==
    (swa.returned /\ AffineLocalScheme) =>
        AffineRescore(swa.aligned_seq1, swa.aligned_seq2) = swa.score

(***************************************************************************)
(* C14: with gap_open = 0 and gap_extend equal to gap_penalty,             *)
(* smith_waterman_affine returns the score smith_waterman returns for the  *)
(* same sequences, match_score and mismatch_penalty.                       *)
(***************************************************************************)
C14_AffineDegenerates ==
    (sw.returned /\ swa.returned /\ gap_open = 0 /\ gap_extend = gap_penalty) =>
        swa.score = sw.score

\* a positive common score, where smith_waterman's alignment holds a gap
C14_Witness ==
    /\ sw.returned /\ swa.returned
    /\ gap_open = 0 /\ gap_extend = gap_penalty /\ gap_penalty < 0
    /\ mismatch_penalty < 0
    /\ HasGap(sw.aligned_seq1) \/ HasGap(sw.aligned_seq2)
    /\ sw.score > 0
    /\ swa.score = sw.score

(***************************************************************************)
(* C15: the list nw_score returns for seq1 and seq2 has len(seq2) + 1      *)
(* entries, and its entry j is cell[m][j] of the matrix needleman_wunsch   *)
(* fills for the same inputs, m = 0 included; its last entry is the score  *)
(* needleman_wunsch returns.                                               *)
(***************************************************************************)
C15_LastRow ==
    LET m  == Len(seq1)
        n  == Len(seq2)
        dp == NWMatrix(seq1, seq2, match_score, mismatch_penalty, gap_penalty)
    IN  nws.returned =>
            /\ DOMAIN nws.value = 0..n
            /\ \A j \in 0..n : nws.value[j] = dp[m][j]
            /\ nw.returned => nws.value[n] = nw.score

\* the rows were swapped an odd number of times and the last row is not the
\* row of gap penalties nw_score starts from
C15_Witness ==
    /\ nws.returned /\ nw.returned
    /\ Len(seq1) = 3 /\ Len(seq2) = MaxLen
    /\ \E j \in 1..Len(seq2) : nws.value[j] # j * gap_penalty
    /\ nws.value[Len(seq2)] = nw.score

\* the scores for the same sequences and penalties with match_score raised to hi
NWScoreAt(hi) == needleman_wunsch(seq1, seq2, hi, mismatch_penalty, gap_penalty).score
HBScoreAt(hi) == hirschberg(seq1, seq2, hi, mismatch_penalty, gap_penalty).score

(***************************************************************************)
(* C16: for a non-empty S aligned with itself, a larger match_score with   *)
(* the same penalties never gives needleman_wunsch or hirschberg a smaller *)
(* score, and with the default penalties (-1, -1) the score at             *)
(* match_score 2 is greater than at match_score 1.                         *)
(***************************************************************************)
C16_MatchScoreMonotone ==
    (seq1 = seq2 /\ seq1 # <<>>) =>
        /\ nw.returned =>
              /\ \A hi \in match_score..(match_score + 2) : NWScoreAt(hi) >= nw.score
              /\ DefaultGlobalScheme => NWScoreAt(2) > nw.score
        /\ hb.returned =>
              /\ \A hi \in match_score..(match_score + 2) : HBScoreAt(hi) >= hb.score
              /\ DefaultGlobalScheme => HBScoreAt(2) > hb.score

\* the test's case: the default scheme against match_score 2 on a longest S
C16_Witness ==
    /\ seq1 = seq2 /\ Len(seq1) = MaxLen
    /\ DefaultGlobalScheme
    /\ nw.returned /\ hb.returned
    /\ nw.score = MaxLen /\ NWScoreAt(2) = 2 * MaxLen
    /\ hb.score = MaxLen /\ HBScoreAt(2) = 2 * MaxLen

(***************************************************************************)
(* C17: when a non-empty seq2 is a contiguous substring of seq1,           *)
(* smith_waterman with its default scheme (2, -1, -1) returns              *)
(* (seq2, seq2, 2 * len(seq2)).                                            *)
(***************************************************************************)
C17_SubstringFound ==
    (sw.returned /\ DefaultLocalScheme /\ seq2 # <<>> /\ IsSubstring(seq2, seq1)) =>
        sw = Result(seq2, seq2, 2 * Len(seq2))

\* seq2 of two different symbols found inside a longer seq1, not at its start
C17_Witness ==
    /\ sw.returned /\ DefaultLocalScheme
    /\ Len(seq2) = 2 /\ seq2[1] # seq2[2]
    /\ Len(seq1) = MaxLocalLen
    /\ IsSubstring(seq2, seq1) /\ Prefix(seq1, 2) # seq2
    /\ sw = Result(seq2, seq2, 4)

Min2(a, b) == IF a <= b THEN a ELSE b

(***************************************************************************)
(* C18: at every instant of a call of hirschberg, the score cells held by  *)
(* all the frames of the recursion are at most a constant times            *)
(* min(m, n) + 1; the constant taken here is 3, the two rows of nw_score   *)
(* and one kept row.                                                       *)
(***************************************************************************)
C18_CellsWithinShorter ==
    LiveCells <= 3 * (Min2(Len(seq1), Len(seq2)) + 1)

\* the frames in which score_left and score_right are both set
DivideDone(f) == f.pc \notin {"entry", "nw_left", "nw_right"}

(***************************************************************************)
(* C19: in every frame of hirschberg past line 178, on arguments s1 and    *)
(* s2 with m >= 2 and n >= 2, score_left and score_right are the rows of   *)
(* the halves split at mid = m // 2, the largest score_left[j] +           *)
(* score_right[j] over j in 0..n is the score needleman_wunsch returns for *)
(* (s1, s2), the call on (s1[:mid], s2[:split]) returned the score         *)
(* score_left[split] and the call on (s1[mid:], s2[split:]) returned the   *)
(* score score_right[split].                                               *)
(***************************************************************************)
C19_DivideIdentity ==
    \A k \in 1..Len(stack) :
        LET f   == stack[k]
            m   == Len(f.seq1)
            n   == Len(f.seq2)
            mid == m \div 2
        IN  DivideDone(f) =>
                /\ m >= 2 /\ n >= 2
                /\ f.score_left = nw_score(Prefix(f.seq1, mid), f.seq2,
                                           match_score, mismatch_penalty, gap_penalty)
                /\ f.score_right =
                      Reverse2(nw_score(Reverse(Suffix(f.seq1, mid)), Reverse(f.seq2),
                                        match_score, mismatch_penalty, gap_penalty), n)
                /\ SetMax({f.score_left[j] + f.score_right[j] : j \in 0..n})
                      = needleman_wunsch(f.seq1, f.seq2, match_score, mismatch_penalty,
                                         gap_penalty).score
                /\ f.pc = "wait_left" =>
                      /\ stack[k + 1].seq1 = Prefix(f.seq1, mid)
                      /\ stack[k + 1].seq2 = Prefix(f.seq2, f.split)
                /\ f.pc = "wait_right" =>
                      /\ stack[k + 1].seq1 = Suffix(f.seq1, mid)
                      /\ stack[k + 1].seq2 = Suffix(f.seq2, f.split)
                /\ f.left.returned => f.left.score = f.score_left[f.split]
                /\ f.right.returned => f.right.score = f.score_right[f.split]

\* an inner divide step whose two calls have returned, with gaps in both parts
C19_Witness ==
    /\ Len(stack) = 2
    /\ Top.pc = "combine"
    /\ 0 < Top.split /\ Top.split < Len(Top.seq2)
    /\ Top.left.returned /\ Top.right.returned
    /\ Top.left.score = Top.score_left[Top.split]
    /\ Top.right.score = Top.score_right[Top.split]
    /\ Top.left.score # Top.right.score

\* the least k with 2^k >= m, for m >= 1; 0 for m = 0
CeilLog2(m) == CHOOSE k \in 0..m : 2^k >= m /\ \A i \in 0..(k - 1) : 2^i < m

\* the divide step is entered only with m >= 2 and n >= 2, each inner call
\* is on floor(m/2) or ceil(m/2) symbols of its caller's seq1, at least one
\* and fewer than m, and the stack is never deeper than ceil(log2(m)) + 1
RecursionShape ==
    /\ \A k \in 1..Len(stack) :
          stack[k].pc # "entry" => Len(stack[k].seq1) >= 2 /\ Len(stack[k].seq2) >= 2
    /\ \A k \in 1..(Len(stack) - 1) :
          LET m     == Len(stack[k].seq1)
              inner == Len(stack[k + 1].seq1)
          IN  /\ stack[k].pc \in {"wait_left", "wait_right"}
              /\ stack[k].pc = "wait_left" => inner = m \div 2
              /\ stack[k].pc = "wait_right" => inner = m - (m \div 2)
              /\ 1 <= inner /\ inner < m
    /\ stack # <<>> => stack[1].seq1 = seq1 /\ stack[1].seq2 = seq2
    /\ Len(stack) <= CeilLog2(Len(seq1)) + 1

(***************************************************************************)
(* C20: every call of hirschberg returns; the divide step is reached only  *)
(* with m >= 2 and n >= 2, its two inner calls get floor(m/2) and          *)
(* ceil(m/2) symbols of seq1, non-empty and fewer than m, and the depth of *)
(* the recursion never exceeds ceil(log2(m)) + 1.                          *)
(***************************************************************************)
C20_Terminates == []RecursionShape /\ <>(hb.returned /\ stack = <<>>)

\* the deepest recursion the bound allows: ceil(log2(m)) + 1 frames
C20_Witness ==
    /\ Len(seq1) = MaxStackLen
    /\ Len(stack) = CeilLog2(MaxStackLen) + 1
    /\ Len(Top.seq1) = 1 /\ Len(Top.seq2) >= 2

(***************************************************************************)
(* C21: the traceback of needleman_wunsch.                                 *)
(***************************************************************************)
\* the fill of the matrices has ended
Filled(alg) == tb.alg = alg /\ tb.pc \in {"loop", "done"}

\* the column appended last to the walker's two lists
LastColumn(w) == <<w.a1[Len(w.a1)], w.a2[Len(w.a2)]>>

\* a pass of a traceback loop: the walker has moved and one more pass is counted
PassOf(alg) ==
    /\ tb.alg = alg
    /\ tb.pc = "loop"
    /\ tb'.pc = "loop"
    /\ tb'.steps = tb.steps + 1

\* the three transitions into dp[i][j] that reproduce its value
NWMatches(dp, i, j) ==
    [diag |-> dp[i][j] = dp[i - 1][j - 1]
                           + (IF seq1[i] = seq2[j] THEN match_score ELSE mismatch_penalty),
     up   |-> dp[i][j] = dp[i - 1][j] + gap_penalty,
     left |-> dp[i][j] = dp[i][j - 1] + gap_penalty]

\* a pass from (i, j) takes the first of diagonal, up, left that reproduces
\* dp[i][j]; on an edge of the matrix it emits the next symbol against a gap
NWPassOrder ==
    PassOf("nw") =>
        LET i   == tb.w.i
            j   == tb.w.j
            to  == <<tb'.w.i, tb'.w.j>>
            col == LastColumn(tb'.w)
        IN  /\ Len(tb'.w.a1) = Len(tb.w.a1) + 1
            /\ Len(tb'.w.a2) = Len(tb.w.a2) + 1
            /\ SubSeq(tb'.w.a1, 1, Len(tb.w.a1)) = tb.w.a1
            /\ SubSeq(tb'.w.a2, 1, Len(tb.w.a2)) = tb.w.a2
            /\ IF i > 0 /\ j > 0
               THEN LET eq == NWMatches(tb.st.dp, i, j)
                    IN  \/ eq.diag /\ to = <<i - 1, j - 1>> /\ col = <<seq1[i], seq2[j]>>
                        \/ ~eq.diag /\ eq.up /\ to = <<i - 1, j>> /\ col = <<seq1[i], Gap>>
                        \/ ~eq.diag /\ ~eq.up /\ eq.left
                              /\ to = <<i, j - 1>> /\ col = <<Gap, seq2[j]>>
               ELSE IF i > 0
               THEN to = <<i - 1, 0>> /\ col = <<seq1[i], Gap>>
               ELSE to = <<0, j - 1>> /\ col = <<Gap, seq2[j]>>

\* the walk starts at (m, n) and has made at most m + n passes
NWWalkBounds ==
    Filled("nw") =>
        /\ tb.steps = 0 => tb.w.i = Len(seq1) /\ tb.w.j = Len(seq2)
        /\ tb.steps <= Len(seq1) + Len(seq2)
        /\ tb.pc = "done" => tb.w.i = 0 /\ tb.w.j = 0

\* C21: the needleman_wunsch traceback starts at (m, n); every pass with
\* i > 0 and j > 0 takes the first of diagonal, up, left, in that order, whose
\* predecessor value plus transition cost equals dp[i][j]; with one index at 0
\* the rest of the other sequence is emitted against gaps; the loop ends at
\* (0, 0) after at most m + n passes.
C21_TracebackOrder ==
    /\ [][NWPassOrder]_vars
    /\ []NWWalkBounds
    /\ Filled("nw") ~> (tb.pc = "done" /\ nw.returned)

\* the walker has moved and stands on an inner cell that two transitions
\* reproduce, or on an edge with symbols left to emit
C21_Witness ==
    /\ tb.alg = "nw"
    /\ tb.pc = "loop"
    /\ tb.steps > 0
    /\ tb.w.i > 0
    /\ tb.w.j > 0
    /\ LET eq == NWMatches(tb.st.dp, tb.w.i, tb.w.j)
       IN  eq.up /\ (eq.diag \/ eq.left)

(***************************************************************************)
(* C22: max_score, max_pos and the traceback of smith_waterman.            *)
(***************************************************************************)
\* the cells of a matrix with rows 0..m and columns 0..n
Cells(m, n) == (0..m) \X (0..n)

\* c comes no later than d when the cells are read row by row
RowMajorLeq(c, d) == c[1] < d[1] \/ (c[1] = d[1] /\ c[2] <= d[2])

\* max_score is the largest value of dp, and max_pos the first cell, row by
\* row, that holds it; the walk starts there
SWMaxFirst ==
    Filled("sw") =>
        LET dp    == tb.st.dp
            cells == Cells(Len(seq1), Len(seq2))
        IN  /\ \A c \in cells : dp[c[1]][c[2]] <= tb.st.max_score
            /\ tb.st.max_pos \in cells
            /\ dp[tb.st.max_pos[1]][tb.st.max_pos[2]] = tb.st.max_score
            /\ \A c \in cells :
                   dp[c[1]][c[2]] = tb.st.max_score => RowMajorLeq(tb.st.max_pos, c)
            /\ tb.st.max_score = 0 => tb.st.max_pos = <<0, 0>>
            /\ tb.steps = 0 => <<tb.w.i, tb.w.j>> = tb.st.max_pos

\* the walk has ended on a cell of value 0 or on row 0 or column 0
SWStopsAtZero ==
    tb.alg = "sw" /\ tb.pc = "done" =>
        tb.w.i = 0 \/ tb.w.j = 0 \/ tb.st.dp[tb.w.i][tb.w.j] = 0

\* a pass leaves an inner cell of positive value
SWPassPositive ==
    PassOf("sw") => tb.w.i > 0 /\ tb.w.j > 0 /\ tb.st.dp[tb.w.i][tb.w.j] > 0

\* C22: after the fill of smith_waterman max_score is the largest value of dp
\* and max_pos the first cell in row-major order holding it, (0, 0) when the
\* maximum is 0; the traceback starts at max_pos, every cell it leaves has a
\* positive value, and it stops at the first cell whose value is 0 or whose
\* row or column index is 0.
C22_MaxPosAndWalk ==
    /\ []SWMaxFirst
    /\ []SWStopsAtZero
    /\ [][SWPassPositive]_vars

\* the walk has ended inside the matrix after at least one pass, and the
\* largest value is held by more than one cell
C22_Witness ==
    /\ tb.alg = "sw"
    /\ tb.pc = "done"
    /\ tb.steps > 0
    /\ tb.w.i > 0
    /\ tb.w.j > 0
    /\ \E c \in Cells(Len(seq1), Len(seq2)) :
           c # tb.st.max_pos /\ tb.st.dp[c[1]][c[2]] = tb.st.max_score

(***************************************************************************)
(* C23: the origin of the smith_waterman_affine traceback.                 *)
(***************************************************************************)
\* the cells the fill loops of the local aligners write
InnerCells(m, n) == (1..m) \X (1..n)

\* the value of matrix "M", "I" or "D" of st at cell c
AffAt(st, T, c) == IF T = "M" THEN st.M[c[1]][c[2]]
                   ELSE IF T = "I" THEN st.I[c[1]][c[2]]
                   ELSE st.D[c[1]][c[2]]

\* the matrix preferred among those holding v at cell c: D, then I, then M
PreferredAt(st, c, v) ==
    IF AffAt(st, "D", c) = v THEN "D"
    ELSE IF AffAt(st, "I", c) = v THEN "I"
    ELSE "M"

\* C23: after the fill of smith_waterman_affine max_score is the largest
\* value written to M, I or D; the origin max_pos is the last cell in
\* row-major order at which one of the three holds it, and when two or more
\* of them hold it at that cell D is preferred over I and I over M.
C23_OriginTieOrder ==
    Filled("swa") /\ seq1 # <<>> /\ seq2 # <<>> =>
        LET st    == tb.st
            cells == InnerCells(Len(seq1), Len(seq2))
            c0    == <<st.max_pos[1], st.max_pos[2]>>
        IN  /\ c0 \in cells
            /\ AffAt(st, st.max_pos[3], c0) = st.max_score
            /\ \A c \in cells : \A T \in {"M", "I", "D"} :
                   /\ AffAt(st, T, c) <= st.max_score
                   /\ AffAt(st, T, c) = st.max_score => RowMajorLeq(c, c0)
            /\ st.max_pos[3] = PreferredAt(st, c0, st.max_score)

\* a positive largest value is held by M and by another matrix at the origin
C23_Witness ==
    /\ Filled("swa")
    /\ tb.st.max_score > 0
    /\ LET st == tb.st
           c0 == <<st.max_pos[1], st.max_pos[2]>>
       IN  /\ c0 \in InnerCells(Len(seq1), Len(seq2))
           /\ st.max_pos[3] # "M"
           /\ AffAt(st, "M", c0) = st.max_score

(***************************************************************************)
(* C24: the next state of the smith_waterman_affine traceback.             *)
(***************************************************************************)
\* the cell a walker in state S reaches from (i, j)
AffPredecessor(S, i, j) ==
    IF S = "M" THEN <<i - 1, j - 1>>
    ELSE IF S = "I" THEN <<i, j - 1>>
    ELSE <<i - 1, j>>

\* the cost of entering state S at (i, j) from state T
AffCost(S, T, i, j) ==
    IF S = "M" THEN (IF seq1[i] = seq2[j] THEN match_score ELSE mismatch_penalty)
    ELSE IF S = T THEN gap_extend
    ELSE gap_open + gap_extend

\* T at the predecessor of (i, j) plus the transition cost gives S[i][j]
AffReproduces(st, S, T, i, j) ==
    AffAt(st, S, <<i, j>>) = Add(AffAt(st, T, AffPredecessor(S, i, j)), AffCost(S, T, i, j))

\* the first of M, I, D, in that order, that reproduces S[i][j]
AffFirstMatch(st, S, i, j) ==
    IF AffReproduces(st, S, "M", i, j) THEN "M"
    ELSE IF AffReproduces(st, S, "I", i, j) THEN "I"
    ELSE IF AffReproduces(st, S, "D", i, j) THEN "D"
    ELSE "none"

\* a pass that leaves cell (i, j) goes on in the first state that reproduces
\* the value it leaves
AffPassOrder ==
    PassOf("swa") /\ <<tb'.w.i, tb'.w.j>> # <<tb.w.i, tb.w.j>> =>
        LET S == tb.w.current_matrix
        IN  /\ AffAt(tb.st, S, <<tb.w.i, tb.w.j>>) > 0
            /\ <<tb'.w.i, tb'.w.j>> = AffPredecessor(S, tb.w.i, tb.w.j)
            /\ ~tb'.w.stop
            /\ tb'.w.current_matrix = AffFirstMatch(tb.st, S, tb.w.i, tb.w.j)

\* C24: whenever the smith_waterman_affine walker leaves cell (i, j) in state
\* S (M diagonally, I to the left, D upwards) with S[i][j] > 0, the next state
\* is the first of M, I, D, tested in that order, whose value at the
\* predecessor cell of (i, j) plus the transition cost equals S[i][j].
C24_NextStateOrder == [][AffPassOrder]_vars

\* the walker has left a cell in state I: the last column pairs a gap with a
\* symbol of seq2
C24_Witness ==
    /\ tb.alg = "swa"
    /\ tb.pc = "loop"
    /\ tb.steps > 0
    /\ tb.w.a1 # <<>>
    /\ tb.w.a1[Len(tb.w.a1)] = Gap

(***************************************************************************)
(* C25: the end of the smith_waterman_affine traceback.                    *)
(***************************************************************************)
\* the walk has made at most m + n passes, and where it has ended an index
\* is 0 or the matrix of its state holds no positive value
AffWalkBounds ==
    Filled("swa") =>
        /\ tb.steps <= Len(seq1) + Len(seq2)
        /\ tb.pc = "done" =>
               \/ tb.w.i = 0
               \/ tb.w.j = 0
               \/ AffAt(tb.st, tb.w.current_matrix, <<tb.w.i, tb.w.j>>) <= 0

\* C25: the smith_waterman_affine traceback ends within m + n passes, and
\* where it stops i is 0, or j is 0, or the matrix of the current state holds
\* a value <= 0 at (i, j): it never stops on an inner cell of positive value.
C25_WalkEnds ==
    /\ []AffWalkBounds
    /\ Filled("swa") ~> (tb.pc = "done" /\ swa.returned)

\* the walk has moved and has ended on an inner cell
C25_Witness ==
    /\ tb.alg = "swa"
    /\ tb.pc = "done"
    /\ tb.steps > 1
    /\ tb.w.i > 0
    /\ tb.w.j > 0

(***************************************************************************)
(* C26: the values of M, I and D after the fill.                           *)
(***************************************************************************)
\* C26: after the fill of smith_waterman_affine every cell of M, I and D,
\* for all 0 <= i <= m and 0 <= j <= n, holds a value >= 0, and the returned
\* score is >= 0.
C26_AllCellsNonNegative ==
    /\ Filled("swa") =>
           \A c \in Cells(Len(seq1), Len(seq2)) : \A T \in {"M", "I", "D"} :
               AffAt(tb.st, T, c) >= 0
    /\ swa.returned => swa.score >= 0

\* C26 as the code has it: after the fill every cell of M, and every cell of
\* I and D with 1 <= i <= m and 1 <= j <= n, holds a value >= 0; row 0 and
\* column 0 of I and D hold negative infinity; the returned score is >= 0.
C26_InnerCellsNonNegative ==
    /\ Filled("swa") =>
           \A c \in Cells(Len(seq1), Len(seq2)) :
               /\ AffAt(tb.st, "M", c) >= 0
               /\ \A T \in {"I", "D"} :
                      IF c \in InnerCells(Len(seq1), Len(seq2))
                      THEN AffAt(tb.st, T, c) >= 0
                      ELSE AffAt(tb.st, T, c) = NEG_INF
    /\ swa.returned => swa.score >= 0

\* the call has returned for two non-empty sequences, and the floor has
\* acted: an inner cell of D holds 0 where its three terms are all negative
C26_Witness ==
    /\ tb.alg = "swa"
    /\ swa.returned
    /\ \E c \in InnerCells(Len(seq1), Len(seq2)) :
           /\ tb.st.D[c[1]][c[2]] = 0
           /\ Add(Add(tb.st.M[c[1] - 1][c[2]], gap_open), gap_extend) < 0
           /\ Add(Add(tb.st.I[c[1] - 1][c[2]], gap_open), gap_extend) < 0
           /\ Add(tb.st.D[c[1] - 1][c[2]], gap_extend) < 0

====
